---- MODULE Spec2Model ----
(***************************************************************************)
(* A model of Cxx11/transpose-vector-raja.cc: the PRK matrix transpose     *)
(* benchmark written against RAJA's forall / forallN.                      *)
(*                                                                         *)
(* Doubles are modelled as integers: every value the program stores in A   *)
(* and B, the reference value and the error sum are integers far below     *)
(* 2^53, where double arithmetic is exact.                                 *)
(***************************************************************************)
EXTENDS Integers, Sequences, FiniteSets, TLC

VARIABLES
    pc,          \* position of main
    build,       \* [omp, tbb]: RAJA_ENABLE_OPENMP / RAJA_ENABLE_TBB of the build
    argc,        \* argc
    argIter,     \* std::atoi(argv[1])
    argOrder,    \* std::atoi(argv[2])
    argv,        \* argv[3..argc-1], each a sequence of characters
    iterations,  \* int iterations
    order,       \* int order
    cfg,         \* [use_for, use_simd, use_nested, use_tiled, use_permute]
    allocated,   \* A.resize / B.resize have run
    size,        \* A.size() and B.size()
    probe,       \* an element access of the validator: [i, j, ij, ji]
    A,           \* std::vector<double> A, indexed from 0
    B,           \* std::vector<double> B, indexed from 0
    kernel,      \* the kernel whose forall is running: "none", "Initialize", "Transpose"
    pos,         \* loop position <<i, j>> of a sequential policy
    done,        \* pairs <<i, j>> whose loop body has completed in the running forall
    inflight,    \* loop bodies in progress: records [app, i, j, step, ra, rb]
    iter,        \* loop counter of main's iteration loop
    snapA,       \* A when the running forall was entered
    snapB,       \* B when the running forall was entered
    abserr,      \* the validator's reduction variable
    msg,         \* last diagnostic written to std::cout
    exit,        \* process outcome: "running", "0", "1", "abort"
    touched,     \* some Initialize or Transpose loop body has started
    run,         \* comparison harness: which of the two runs this is (1 or 2)
    refA,        \* comparison harness: A at the end of run 1
    refB,        \* comparison harness: B at the end of run 1
    wtime,       \* prk::wtime(): a clock that advances by 1 with every loop body run
    trans_time,  \* auto trans_time
    execs,       \* how often the body of each pair has been started in the running forall
    dispatched   \* the policies of the Initialize / Transpose calls made so far, in order

vars == << pc, build, argc, argIter, argOrder, argv, iterations, order, cfg,
           allocated, size, probe, A, B, kernel, pos, done, inflight, iter, snapA, snapB,
           abserr, msg, exit, touched, run, refA, refB, wtime, trans_time, execs, dispatched >>

(***************************************************************************)
(* Bounds of the model.                                                    *)
(***************************************************************************)
MaxOrder == 2          \* largest matrix order run to completion under Spec
MaxIter == 2           \* largest iteration count under Spec
MaxArgs == 1           \* most variant tokens on the command line under Spec
ParMaxOrder == 2       \* largest matrix order under SpecPar
ParIter == 1           \* the iteration count under SpecPar
NumWorkers == 2        \* most loop bodies in progress at once under SpecPar
GuardMaxOrder == 50000 \* largest requested order under SpecGuard
TileOver == 1          \* SpecTiled runs orders up to tile_size + TileOver
TiledMaxIter == 1      \* largest iteration count under SpecTiled
InitMaxOrder == 2      \* largest matrix order under SpecInit
PermMaxOrder == 2      \* largest matrix order under SpecPermute
PermMaxIter == 1       \* largest iteration count under SpecPermute
FlagMaxArgs == 2       \* most variant tokens on the command line under SpecFlags
PolMaxOrder == 2       \* largest order run under every policy under SpecPolicies
PolIter == 1           \* the iteration count under SpecPolicies

(***************************************************************************)
(* Program constants.                                                      *)
(***************************************************************************)
tile_size == 32
INT_MAX == 2147483647

INT_MIN == -INT_MAX - 1

\* x + y in 32-bit two's complement, for 32-bit x and y; no intermediate
\* value leaves the 32-bit range.
Add32(x, y) ==
    IF x >= 0 /\ y >= 0 /\ x > INT_MAX - y
    THEN (x + INT_MIN) + (y + INT_MIN)
    ELSE IF x < 0 /\ y < 0 /\ x < INT_MIN - y
    THEN (x - INT_MIN) + (y - INT_MIN)
    ELSE x + y

RECURSIVE Mul32(_, _)
\* x * y in 32-bit two's complement, for 32-bit x and y >= 0, by doubling.
Mul32(x, y) ==
    IF y = 0 THEN 0
    ELSE LET h == Mul32(x, y \div 2)
         IN  IF y % 2 = 0 THEN Add32(h, h) ELSE Add32(Add32(h, h), x)

\* The product x * y of non-negative ints is above INT_MAX.
MulOverflows(x, y) == y > 0 /\ x > INT_MAX \div y

RECURSIVE SqrtSearch(_, _, _)
\* Largest r in lo..hi with r*r <= n, for lo*lo <= n.
SqrtSearch(n, lo, hi) ==
    IF lo >= hi THEN lo
    ELSE LET mid == (lo + hi + 1) \div 2
         IN  IF mid <= n \div mid THEN SqrtSearch(n, mid, hi)
                               ELSE SqrtSearch(n, lo, mid - 1)

\* std::floor(std::sqrt(INT_MAX)): sqrt(2147483647.0) = 46340.95..., so the
\* floor of the double is the integer square root.
FloorSqrtIntMax == SqrtSearch(INT_MAX, 0, 65536)

(***************************************************************************)
(* std::string operations used by the flag parser.  A string is a sequence *)
(* of one-character strings; positions are 0-based as in C++.              *)
(***************************************************************************)
npos == -1

\* s.find(pat): the first position where pat occurs in s, or npos.
Find(s, pat) ==
    LET hits == { p \in 0..(Len(s) - Len(pat)) :
                    SubSeq(s, p + 1, p + Len(pat)) = pat }
    IN  IF hits = {} THEN npos
        ELSE CHOOSE p \in hits : \A q \in hits : p <= q

\* s.substr(n, s.size()): the characters of s from position n on.
Substr(s, n) == SubSeq(s, n + 1, Len(s))

K_for == << "f", "o", "r", "=" >>
K_simd == << "s", "i", "m", "d", "=" >>
K_nested == << "n", "e", "s", "t", "e", "d", "=" >>
K_tiled == << "t", "i", "l", "e", "d", "=" >>
K_permute == << "p", "e", "r", "m", "u", "t", "e", "=" >>

DefaultCfg ==
    [ use_for |-> "seq", use_permute |-> "no",
      use_simd |-> TRUE, use_nested |-> TRUE, use_tiled |-> FALSE ]

\* ParseFor taking the value from behind the place where "for=" was found.
ParseForAtFoundPosition(c, s) ==
    IF Find(s, K_for) # npos
    THEN LET sf == Substr(s, Find(s, K_for) + 4)
         IN  IF sf = << "o", "m", "p" >> THEN [c EXCEPT !.use_for = "omp"]
             ELSE IF sf = << "o", "p", "e", "n", "m", "p" >>
                  THEN [c EXCEPT !.use_for = "omp"]
             ELSE IF sf = << "t", "b", "b" >> THEN [c EXCEPT !.use_for = "tbb"]
             ELSE c
    ELSE c

ParseFor(c, s) ==
    IF Find(s, K_for) # npos
    THEN LET sf == Substr(s, 4)
         IN  IF sf = << "o", "m", "p" >> THEN [c EXCEPT !.use_for = "omp"]
             ELSE IF sf = << "o", "p", "e", "n", "m", "p" >>
                  THEN [c EXCEPT !.use_for = "omp"]
             ELSE IF sf = << "t", "b", "b" >> THEN [c EXCEPT !.use_for = "tbb"]
             ELSE c
    ELSE c

\* ParseSimd with simd=y switching vectorisation back on.
ParseSimdRestores(c, s) ==
    IF Find(s, K_simd) # npos
    THEN LET ss == Substr(s, 5)
         IN  IF ss = << "n" >> \/ ss = << "n", "p" >>
             THEN [c EXCEPT !.use_simd = FALSE]
             ELSE IF ss = << "y" >> THEN [c EXCEPT !.use_simd = TRUE] ELSE c
    ELSE c

ParseSimd(c, s) ==
    IF Find(s, K_simd) # npos
    THEN LET ss == Substr(s, 5)
         IN  IF ss = << "n" >> \/ ss = << "n", "p" >>
             THEN [c EXCEPT !.use_simd = FALSE] ELSE c
    ELSE c

ParseNested(c, s) ==
    IF Find(s, K_nested) # npos
    THEN LET sn == Substr(s, 7)
         IN  IF sn = << "n" >> \/ sn = << "n", "o" >>
             THEN [c EXCEPT !.use_nested = FALSE] ELSE c
    ELSE c

ParseTiled(c, s) ==
    IF Find(s, K_tiled) # npos
    THEN LET st == Substr(s, 6)
         IN  IF st = << "y" >> \/ st = << "y", "e", "s" >>
             THEN [c EXCEPT !.use_tiled = TRUE] ELSE c
    ELSE c

\* ParsePermute with permute=ji also switching tiling on.
ParsePermuteAlsoTiles(c, s) ==
    IF Find(s, K_permute) # npos
    THEN LET sp == Substr(s, 8)
         IN  IF sp = << "i", "j" >> THEN [c EXCEPT !.use_permute = "ij"]
             ELSE IF sp = << "j", "i" >>
                  THEN [c EXCEPT !.use_permute = "ji", !.use_tiled = TRUE]
             ELSE c
    ELSE c

ParsePermute(c, s) ==
    IF Find(s, K_permute) # npos
    THEN LET sp == Substr(s, 8)
         IN  IF sp = << "i", "j" >> THEN [c EXCEPT !.use_permute = "ij"]
             ELSE IF sp = << "j", "i" >> THEN [c EXCEPT !.use_permute = "ji"]
             ELSE c
    ELSE c

\* One pass of the body of the flag loop over the token s.
ParseToken(c, s) ==
    ParsePermute(ParseTiled(ParseNested(ParseSimd(ParseFor(c, s), s), s), s), s)

RECURSIVE ParseFlags(_, _)
\* for (int i=3; i<argc; ++i): the tokens in command-line order.
ParseFlags(c, toks) ==
    IF toks = << >> THEN c
    ELSE ParseFlags(ParseToken(c, Head(toks)), Tail(toks))

(***************************************************************************)
(* Policy dispatch.  A policy is named by its typedef (or, for the         *)
(* non-nested overloads, by its two template arguments).                   *)
(***************************************************************************)

\* The if/else-if chain that selects the policy of Initialize.
InitPolicy(c) ==
    IF c.use_nested
    THEN IF c.use_tiled
         THEN IF c.use_simd THEN << c.use_for, "for_simd_tiled" >>
                            ELSE << c.use_for, "for_seq_tiled" >>
         ELSE IF c.use_simd THEN << c.use_for, "for_simd" >>
                            ELSE << c.use_for, "for_seq" >>
    ELSE IF c.use_simd THEN << c.use_for, "exec,simd_exec" >>
                       ELSE << c.use_for, "exec,seq_exec" >>

\* TransPolicy without the use_tiled test.
TransPolicyNeverTiled(c) ==
    IF c.use_nested
    THEN IF c.use_simd THEN << c.use_for, "for_simd" >>
                       ELSE << c.use_for, "for_seq" >>
    ELSE IF c.use_simd THEN << c.use_for, "exec,simd_exec" >>
                       ELSE << c.use_for, "exec,seq_exec" >>

\* The if/else-if chain that selects the policy of Transpose.
TransPolicy(c) ==
    IF c.use_nested
    THEN IF c.use_tiled
         THEN IF c.use_simd THEN << c.use_for, "for_simd_tiled" >>
                            ELSE << c.use_for, "for_seq_tiled" >>
         ELSE IF c.use_simd THEN << c.use_for, "for_simd" >>
                            ELSE << c.use_for, "for_seq" >>
    ELSE IF c.use_simd THEN << c.use_for, "exec,simd_exec" >>
                       ELSE << c.use_for, "exec,seq_exec" >>

\* The policy splits the index space into tile_size x tile_size tiles.
PolicyTiled(p) == p[2] \in { "for_simd_tiled", "for_seq_tiled" }

\* The policy's outer loop is distributed over worker threads.
PolicyParallel(p) == p[1] \in { "omp", "tbb" }

\* The builds that compile: without RAJA_ENABLE_OPENMP the text after #else
\* ends the if statement, so the "else if" of the TBB section has no if.
Builds ==
    { [omp |-> TRUE, tbb |-> TRUE], [omp |-> TRUE, tbb |-> FALSE],
      [omp |-> FALSE, tbb |-> FALSE] }

\* Some branch of the compiled if/else-if chain matches use_for.
BranchSelected(b, c) ==
    \/ c.use_for = "seq"
    \/ c.use_for = "omp" /\ b.omp
    \/ c.use_for = "tbb" /\ b.omp /\ b.tbb

\* The statements the preprocessor leaves after the chain: the #else text
\* of a backend that is not compiled in is ordinary code after the if.
AbortMessage(b) ==
    IF ~b.omp THEN "no OpenMP"
    ELSE IF ~b.tbb THEN "no TBB"
    ELSE "none"

(***************************************************************************)
(* Index space and loop order.                                             *)
(***************************************************************************)
Pairs(n) == (0..(n - 1)) \X (0..(n - 1))

Min(a, b) == IF a < b THEN a ELSE b

End == << -1, -1 >>

\* NextUntiled passing over the diagonal pairs after << 0, 0 >>.
NextUntiledSkipDiagonal(p, n) ==
    LET succ(q) == IF q[2] + 1 < n THEN << q[1], q[2] + 1 >>
                   ELSE IF q[1] + 1 < n THEN << q[1] + 1, 0 >>
                   ELSE End
        r == succ(p)
    IN  IF r # End /\ r[1] = r[2] THEN succ(r) ELSE r

\* for i in [0,order) for j in [0,order): the pair after p, or End.
NextUntiled(p, n) ==
    IF p[2] + 1 < n THEN << p[1], p[2] + 1 >>
    ELSE IF p[1] + 1 < n THEN << p[1] + 1, 0 >>
    ELSE End

\* NextTiled with the tiles cut at the edge of the index space left out.
NextTiledFullTilesOnly(p, n) ==
    LET ti == (p[1] \div tile_size) * tile_size
        tj == (p[2] \div tile_size) * tile_size
    IN  IF p[2] + 1 < Min(tj + tile_size, n) THEN << p[1], p[2] + 1 >>
        ELSE IF p[1] + 1 < Min(ti + tile_size, n) THEN << p[1] + 1, tj >>
        ELSE IF tj + 2 * tile_size <= n THEN << ti, tj + tile_size >>
        ELSE IF ti + 2 * tile_size <= n THEN << ti + tile_size, 0 >>
        ELSE End

\* TileList<tile_fixed<tile_size>, tile_fixed<tile_size>>: the tiles of the
\* i range outermost, then the tiles of the j range, then i and j inside
\* the tile; a tile at the edge is cut at order.
NextTiled(p, n) ==
    LET ti == (p[1] \div tile_size) * tile_size
        tj == (p[2] \div tile_size) * tile_size
    IN  IF p[2] + 1 < Min(tj + tile_size, n) THEN << p[1], p[2] + 1 >>
        ELSE IF p[1] + 1 < Min(ti + tile_size, n) THEN << p[1] + 1, tj >>
        ELSE IF tj + tile_size < n THEN << ti, tj + tile_size >>
        ELSE IF ti + tile_size < n THEN << ti + tile_size, 0 >>
        ELSE End

NextPos(pol, p, n) ==
    IF PolicyTiled(pol) THEN NextTiled(p, n) ELSE NextUntiled(p, n)

(***************************************************************************)
(* The loop bodies.                                                        *)
(***************************************************************************)
\* The element of B the Transpose body updates: B[i*order+j].
BAddr(i, j, n) == i * n + j

\* AAddr without the column offset: every pair of a column shares a cell.
AAddrColumnOnly(i, j, n) == j * n

\* The element of A the Transpose body reads and increments: A[j*order+i].
AAddr(i, j, n) == j * n + i

\* The element of A and of B the Initialize body writes: [i*order+j].
InitAddr(i, j, n) == i * n + j

\* The Initialize body storing the row's first index in every cell of a row.
InitBodyARowStart(a, i, j, n) == [a EXCEPT ![InitAddr(i, j, n)] = i * n]

\* A[i*order+j] = static_cast<double>(i*order+j);
InitBodyA(a, i, j, n) == [a EXCEPT ![InitAddr(i, j, n)] = i * n + j]
\* The Initialize body leaving B as it finds it.
InitBodyBUnwritten(b, i, j, n) == b

\* B[i*order+j] = 0.0;
InitBodyB(b, i, j, n) == [b EXCEPT ![InitAddr(i, j, n)] = 0]

\* The Transpose body adding the value A[j*order+i] was initialised to.
TransBodyBInitialValue(a, b, i, j, n) ==
    [b EXCEPT ![BAddr(i, j, n)] = @ + AAddr(i, j, n)]

\* B[i*order+j] += A[j*order+i];
TransBodyB(a, b, i, j, n) == [b EXCEPT ![BAddr(i, j, n)] = @ + a[AAddr(i, j, n)]]
\* The Transpose body without its increment of A.
TransBodyANoIncrement(a, i, j, n) == a

\* A[j*order+i] += 1.0;
TransBodyA(a, i, j, n) == [a EXCEPT ![AAddr(i, j, n)] = @ + 1]

(***************************************************************************)
(* main: argument checks and flag parsing.                                 *)
(***************************************************************************)
\* ArgCheck with the iteration count tested against 0 instead of 1.
ArgCheckIterZero(ac, its, ord) ==
    IF ac < 3 THEN "usage"
    ELSE IF its < 0 THEN "iterations"
    ELSE IF ord <= 0 THEN "order"
    ELSE IF ord > FloorSqrtIntMax THEN "overflow"
    ELSE "ok"

\* ArgCheck with the order tested with >= after adding one to the limit.
ArgCheckOrderOffByOne(ac, its, ord) ==
    IF ac < 3 THEN "usage"
    ELSE IF its < 1 THEN "iterations"
    ELSE IF ord <= 0 THEN "order"
    ELSE IF ord > FloorSqrtIntMax + 1 THEN "overflow"
    ELSE "ok"

\* The try block's checks in order; "ok" when none throws.
ArgCheck(ac, its, ord) ==
    IF ac < 3 THEN "usage"
    ELSE IF its < 1 THEN "iterations"
    ELSE IF ord <= 0 THEN "order"
    ELSE IF ord > FloorSqrtIntMax THEN "overflow"
    ELSE "ok"

\* AllocSize for one row: A.resize(order).
AllocSizeOneRow(ord) == ord

\* A.resize(order*order): the int product order*order is the new size.
AllocSize(ord) == Mul32(ord, ord)

StartState(b, ac, its, ord, toks) ==
    /\ pc = "start"
    /\ build = b
    /\ argc = ac
    /\ argIter = its
    /\ argOrder = ord
    /\ argv = toks
    /\ iterations = 0
    /\ order = 0
    /\ cfg = DefaultCfg
    /\ allocated = FALSE
    /\ size = 0
    /\ probe = << >>
    /\ A = << >>
    /\ B = << >>
    /\ kernel = "none"
    /\ pos = End
    /\ done = {}
    /\ inflight = {}
    /\ iter = 0
    /\ snapA = << >>
    /\ snapB = << >>
    /\ abserr = 0
    /\ msg = "none"
    /\ exit = "running"
    /\ touched = FALSE
    /\ run = 1
    /\ refA = << >>
    /\ refB = << >>
    /\ wtime = 0
    /\ trans_time = 0
    /\ execs = << >>
    /\ dispatched = << >>

\* The try block: throw on the first failed check, else parse the flags.
ReadArgs ==
    /\ pc = "start"
    /\ LET r == ArgCheck(argc, argIter, argOrder)
       IN  IF r = "ok"
           THEN /\ iterations' = argIter
                /\ order' = argOrder
                /\ cfg' = ParseFlags(cfg, argv)
                /\ pc' = "alloc"
                /\ UNCHANGED << msg, exit >>
           ELSE /\ iterations' = (IF r = "usage" THEN iterations ELSE argIter)
                /\ order' = (IF r \in { "usage", "iterations" } THEN order ELSE argOrder)
                /\ msg' = r
                /\ exit' = "1"
                /\ pc' = "exited"
                /\ UNCHANGED cfg
    /\ UNCHANGED << build, argc, argIter, argOrder, argv, allocated, size, probe,
                    A, B, kernel, pos, done, inflight, iter, snapA, snapB, abserr, touched,
                    run, refA, refB, wtime, trans_time, execs, dispatched >>

\* A.resize(order*order); B.resize(order*order): value-initialised to 0.0.
Alloc ==
    /\ pc = "alloc"
    /\ allocated' = TRUE
    /\ size' = AllocSize(order)
    /\ A' = [x \in 0..(AllocSize(order) - 1) |-> 0]
    /\ B' = [x \in 0..(AllocSize(order) - 1) |-> 0]
    /\ pc' = "init"
    /\ UNCHANGED << build, argc, argIter, argOrder, argv, iterations, order, cfg,
                    probe, kernel, pos, done, inflight, iter, snapA, snapB, abserr,
                    msg, exit, touched, run, refA, refB, wtime, trans_time, execs, dispatched >>

(***************************************************************************)
(* Entering and leaving a forall.                                          *)
(***************************************************************************)
\* No body of the forall being entered has been started.
NoExecs(n) == [p \in Pairs(n) |-> 0]

\* StartTimer with the clock read at the top of every iteration.
StartTimerEveryIteration(it, t, now) == now

\* if (iter==1) trans_time = prk::wtime();
StartTimer(it, t, now) == IF it = 1 THEN now ELSE t

\* trans_time = prk::wtime() - trans_time;
StopTimer(t, now) == now - t

\* The policy of the running kernel.
CurPolicy == IF kernel = "Initialize" THEN InitPolicy(cfg) ELSE TransPolicy(cfg)

\* The application a loop body belongs to: -1 for Initialize, else iter.
CurApp == IF kernel = "Initialize" THEN -1 ELSE iter

\* Claimed without the bodies in progress: a pair whose body is running can
\* be handed to a second worker.
ClaimedDoneOnly == done

\* The pairs whose body has started in the running forall.
Claimed == done \cup { << t.i, t.j >> : t \in { u \in inflight : u.app = CurApp } }

\* A forall that returns once every body has started.
JoinReadyAllStarted == Claimed = Pairs(order)

\* forall / forallN return to the caller: under a sequential policy the
\* loop nest has run off its end, the last body complete; under a parallel
\* policy the workers have been joined, the bodies of all pairs complete.
JoinReady ==
    IF PolicyParallel(CurPolicy)
    THEN done = Pairs(order)
    ELSE pos = End /\ inflight = {}

\* std::abort() after the diagnostic of the backend that is not compiled in.
Abort ==
    /\ msg' = AbortMessage(build)
    /\ exit' = "abort"
    /\ pc' = "aborted"

\* The Initialize dispatch: the chain's branch calls Initialize; with no
\* branch for use_for, control reaches the statements after the chain.
EnterInit ==
    /\ pc = "init"
    /\ IF BranchSelected(build, cfg)
       THEN /\ kernel' = "Initialize"
            /\ pos' = << 0, 0 >>
            /\ done' = {}
            /\ snapA' = A
            /\ snapB' = B
            /\ execs' = NoExecs(order)
            /\ dispatched' = Append(dispatched, InitPolicy(cfg))
            /\ pc' = "forall"
            /\ UNCHANGED << msg, exit >>
       ELSE /\ Abort
            /\ UNCHANGED << kernel, pos, done, snapA, snapB, execs, dispatched >>
    /\ UNCHANGED << build, argc, argIter, argOrder, argv, iterations, order, cfg,
                    allocated, size, probe, A, B, inflight, iter, abserr, touched,
                    run, refA, refB, wtime, trans_time >>

\* Initialize has returned: abort when a backend is not compiled in, else
\* enter the iteration loop with iter = 0.
InitJoin ==
    /\ pc = "forall"
    /\ kernel = "Initialize"
    /\ JoinReady
    /\ kernel' = "none"
    /\ pos' = End
    /\ done' = {}
    /\ IF AbortMessage(build) # "none"
       THEN Abort /\ UNCHANGED iter
       ELSE /\ iter' = 0
            /\ pc' = "loop"
            /\ UNCHANGED << msg, exit >>
    /\ UNCHANGED << build, argc, argIter, argOrder, argv, iterations, order, cfg,
                    allocated, size, probe, A, B, inflight, snapA, snapB, abserr, touched,
                    run, refA, refB, wtime, trans_time, execs, dispatched >>

\* for (auto iter = 0; iter<=iterations; iter++): the loop test, then the
\* timer's start and the Transpose dispatch, or, once the test fails, the
\* timer's stop and the validator's loop.
LoopHead ==
    /\ pc = "loop"
    /\ IF iter <= iterations
       THEN /\ trans_time' = StartTimer(iter, trans_time, wtime)
            /\ IF BranchSelected(build, cfg)
               THEN /\ kernel' = "Transpose"
                    /\ pos' = << 0, 0 >>
                    /\ done' = {}
                    /\ snapA' = A
                    /\ snapB' = B
                    /\ execs' = NoExecs(order)
                    /\ dispatched' = Append(dispatched, TransPolicy(cfg))
                    /\ pc' = "forall"
                    /\ UNCHANGED << msg, exit, abserr >>
               ELSE /\ Abort
                    /\ UNCHANGED << kernel, pos, done, snapA, snapB, abserr,
                                    execs, dispatched >>
       ELSE /\ trans_time' = StopTimer(trans_time, wtime)
            /\ pc' = "validate"
            /\ pos' = << 0, 0 >>
            /\ abserr' = 0
            /\ UNCHANGED << kernel, done, snapA, snapB, msg, exit, execs, dispatched >>
    /\ UNCHANGED << build, argc, argIter, argOrder, argv, iterations, order, cfg,
                    allocated, size, probe, A, B, inflight, iter, touched, run,
                    refA, refB, wtime >>

\* Transpose has returned: abort when a backend is not compiled in, else
\* iter++ and back to the loop test.
TransJoin ==
    /\ pc = "forall"
    /\ kernel = "Transpose"
    /\ JoinReady
    /\ kernel' = "none"
    /\ pos' = End
    /\ done' = {}
    /\ IF AbortMessage(build) # "none"
       THEN Abort /\ UNCHANGED iter
       ELSE /\ iter' = iter + 1
            /\ pc' = "loop"
            /\ UNCHANGED << msg, exit >>
    /\ UNCHANGED << build, argc, argIter, argOrder, argv, iterations, order, cfg,
                    allocated, size, probe, A, B, inflight, snapA, snapB, abserr, touched,
                    run, refA, refB, wtime, trans_time, execs, dispatched >>

(***************************************************************************)
(* Loop bodies, one whole body per step.                                   *)
(***************************************************************************)
\* The body of the running kernel at the pair p.
ApplyBody(p) ==
    /\ touched' = TRUE
    /\ done' = done \cup { p }
    /\ execs' = [execs EXCEPT ![p] = @ + 1]
    /\ wtime' = wtime + 1
    /\ IF kernel = "Initialize"
       THEN /\ A' = InitBodyA(A, p[1], p[2], order)
            /\ B' = InitBodyB(B, p[1], p[2], order)
       ELSE /\ B' = TransBodyB(A, B, p[1], p[2], order)
            /\ A' = TransBodyA(A, p[1], p[2], order)

\* One loop body of the running forall: the next pair of the loop nest
\* under a sequential policy, any pair not yet run under a parallel one.
BodyStep ==
    /\ pc = "forall"
    /\ kernel # "none"
    /\ IF PolicyParallel(CurPolicy)
       THEN /\ \E p \in Pairs(order) \ done : ApplyBody(p)
            /\ UNCHANGED pos
       ELSE /\ pos # End
            /\ ApplyBody(pos)
            /\ pos' = NextPos(CurPolicy, pos, order)
    /\ UNCHANGED << pc, build, argc, argIter, argOrder, argv, iterations, order,
                    cfg, allocated, size, probe, kernel, inflight, iter, snapA,
                    snapB, abserr, msg, exit, run, refA, refB, trans_time,
                    dispatched >>

(***************************************************************************)
(* Loop bodies, one load or store per step.                                *)
(***************************************************************************)
\* Loop bodies that may be in progress at once under the policy.
Lanes(pol) == IF PolicyParallel(pol) THEN NumWorkers ELSE 1

\* The first access of the body at p: the store to A[i*order+j]
\* (Initialize) or the load of A[j*order+i] (Transpose).
FirstAccess(p) ==
    /\ execs' = [execs EXCEPT ![p] = @ + 1]
    /\ IF kernel = "Initialize"
       THEN /\ A' = InitBodyA(A, p[1], p[2], order)
            /\ inflight' = inflight \cup
                   { [app |-> CurApp, k |-> kernel, i |-> p[1], j |-> p[2],
                      step |-> 1, ra |-> 0, rb |-> 0] }
       ELSE /\ A' = A
            /\ inflight' = inflight \cup
                   { [app |-> CurApp, k |-> kernel, i |-> p[1], j |-> p[2],
                      step |-> 1, ra |-> A[AAddr(p[1], p[2], order)], rb |-> 0] }

\* A worker starts the body of a pair no worker has started.
StartBody ==
    /\ pc = "forall"
    /\ kernel # "none"
    /\ Cardinality(inflight) < Lanes(CurPolicy)
    /\ IF PolicyParallel(CurPolicy)
       THEN /\ \E p \in Pairs(order) \ Claimed : FirstAccess(p)
            /\ UNCHANGED pos
       ELSE /\ pos # End
            /\ FirstAccess(pos)
            /\ pos' = NextPos(CurPolicy, pos, order)
    /\ touched' = TRUE
    /\ UNCHANGED << pc, build, argc, argIter, argOrder, argv, iterations, order,
                    cfg, allocated, size, probe, B, kernel, done, iter, snapA,
                    snapB, abserr, msg, exit, run, refA, refB, wtime, trans_time,
                    dispatched >>

\* The body of t has completed.
Retire(t) ==
    /\ wtime' = wtime + 1
    /\ inflight' = inflight \ { t }
    /\ done' = IF t.app = CurApp /\ t.k = kernel
               THEN done \cup { << t.i, t.j >> } ELSE done

\* The next access of a body in progress.
StepBody ==
    /\ \E t \in inflight :
         IF t.k = "Initialize"
         THEN \* B[i*order+j] = 0.0
              /\ B' = InitBodyB(B, t.i, t.j, order)
              /\ A' = A
              /\ Retire(t)
         ELSE CASE t.step = 1 ->   \* load B[i*order+j]
                     /\ inflight' = (inflight \ { t }) \cup
                            { [t EXCEPT !.step = 2, !.rb = B[BAddr(t.i, t.j, order)]] }
                     /\ UNCHANGED << A, B, done, wtime >>
                [] t.step = 2 ->   \* store B[i*order+j]
                     /\ B' = [B EXCEPT ![BAddr(t.i, t.j, order)] = t.rb + t.ra]
                     /\ inflight' = (inflight \ { t }) \cup { [t EXCEPT !.step = 3] }
                     /\ UNCHANGED << A, done, wtime >>
                [] t.step = 3 ->   \* load A[j*order+i]
                     /\ inflight' = (inflight \ { t }) \cup
                            { [t EXCEPT !.step = 4, !.ra = A[AAddr(t.i, t.j, order)]] }
                     /\ UNCHANGED << A, B, done, wtime >>
                [] OTHER ->        \* store A[j*order+i]
                     /\ A' = [A EXCEPT ![AAddr(t.i, t.j, order)] = t.ra + 1]
                     /\ B' = B
                     /\ Retire(t)
    /\ UNCHANGED << pc, build, argc, argIter, argOrder, argv, iterations, order,
                    cfg, allocated, size, probe, kernel, pos, iter, snapA, snapB,
                    abserr, msg, exit, touched, run, refA, refB, trans_time,
                    execs, dispatched >>

(***************************************************************************)
(* Validation and the result.                                              *)
(***************************************************************************)
\* const int ij = i*order+j: the index narrowed to a 32-bit int.
Index32(i, j, n) == Add32(Mul32(i, n), j)

Abs(x) == IF x < 0 THEN -x ELSE x

\* (iterations+1.) * (iterations/2.): the product of two consecutive
\* integers is even, so the double is this integer.
Addit(its) == ((its + 1) * its) \div 2

\* static_cast<double>(ij)*(1.+iterations)+addit
Reference(ij, its) == ij * (1 + its) + Addit(its)

\* abserr < epsilon, epsilon = 1.0e-8: abserr is a sum of absolute values
\* of integers, so it is below epsilon exactly when it is 0.
BelowEpsilon(e) == e <= 0

\* One body of the validator's loop nest (sequential in every build that
\* reaches it), the reduction variable taking the body's term.
ValidateStep ==
    /\ pc = "validate"
    /\ pos # End
    /\ LET ij == Index32(pos[1], pos[2], order)
           ji == Index32(pos[2], pos[1], order)
       IN  /\ probe' = [i |-> pos[1], j |-> pos[2], ij |-> ij, ji |-> ji]
           /\ abserr' = abserr + Abs(B[ji] - Reference(ij, iterations))
    /\ pos' = NextUntiled(pos, order)
    /\ pc' = IF pos' = End THEN "report" ELSE "validate"
    /\ UNCHANGED << build, argc, argIter, argOrder, argv, iterations, order, cfg,
                    allocated, size, A, B, kernel, done, inflight, iter, snapA,
                    snapB, msg, exit, touched, run, refA, refB, wtime, trans_time, execs, dispatched >>

\* The comparison with epsilon, the diagnostic and main's return value.
Report ==
    /\ pc = "report"
    /\ IF BelowEpsilon(abserr)
       THEN msg' = "Solution validates" /\ exit' = "0"
       ELSE msg' = "ERROR: Aggregate squared error" /\ exit' = "1"
    /\ pc' = "exited"
    /\ UNCHANGED << build, argc, argIter, argOrder, argv, iterations, order, cfg,
                    allocated, size, probe, A, B, kernel, pos, done, inflight,
                    iter, snapA, snapB, abserr, touched, run, refA, refB, wtime, trans_time, execs, dispatched >>

(***************************************************************************)
(* Specification of the whole program, one loop body per step.             *)
(***************************************************************************)
T_for_omp == << "f", "o", "r", "=", "o", "m", "p" >>
T_for_tbb == << "f", "o", "r", "=", "t", "b", "b" >>
T_simd_n == << "s", "i", "m", "d", "=", "n" >>
T_nested_n == << "n", "e", "s", "t", "e", "d", "=", "n" >>
T_tiled_y == << "t", "i", "l", "e", "d", "=", "y" >>

Tokens == { T_for_omp, T_for_tbb, T_simd_n, T_nested_n, T_tiled_y }

RECURSIVE SeqsUpTo(_, _)
\* The sequences over S of length at most n.
SeqsUpTo(S, n) ==
    IF n = 0 THEN { << >> }
    ELSE LET shorter == SeqsUpTo(S, n - 1)
         IN  shorter \cup { Append(q, x) : q \in shorter, x \in S }

Init ==
    \E b \in Builds :
      \/ \E ac \in 1..2 : StartState(b, ac, 0, 0, << >>)
      \/ \E its \in 0..MaxIter, ord \in (-1..MaxOrder) \cup { FloorSqrtIntMax + 1, 50000 },
            toks \in SeqsUpTo(Tokens, MaxArgs) :
           StartState(b, 3 + Len(toks), its, ord, toks)

Next ==
    \/ ReadArgs
    \/ Alloc
    \/ EnterInit
    \/ BodyStep
    \/ InitJoin
    \/ LoopHead
    \/ TransJoin
    \/ ValidateStep
    \/ Report

Spec == Init /\ [][Next]_vars

(***************************************************************************)
(* Properties of the whole program.                                        *)
(***************************************************************************)
\* main's iteration loop has run to its end.
AfterLoop == pc \in { "validate", "report" } \/ (pc = "exited" /\ allocated)

\* C1: once the loop has applied Transpose iterations+1 times after
\* Initialize, every cell (i,j) has
\*   B[j*order+i] = (i*order+j)*(1+iterations) + (iterations+1)*iterations/2,
\* and the validator's error sum, once computed, is 0.
C1_FinalValues ==
    AfterLoop =>
        /\ iter = iterations + 1
        /\ \A p \in Pairs(order) :
             B[p[2] * order + p[1]] =
                 (p[1] * order + p[2]) * (1 + iterations)
                     + ((iterations + 1) * iterations) \div 2
        /\ (pc \in { "report", "exited" } => abserr = 0)

\* A parallel run of order MaxOrder and MaxIter iterations has been validated.
C1_Witness ==
    /\ pc = "report"
    /\ order = MaxOrder
    /\ iterations = MaxIter
    /\ cfg.use_for = "omp"
    /\ abserr = 0

\* The arguments are valid: two positional arguments, iterations >= 1 and
\* 1 <= order with order*order <= INT_MAX.
ValidArgs ==
    /\ argc >= 3
    /\ argIter >= 1
    /\ argOrder >= 1
    /\ ~MulOverflows(argOrder, argOrder)

\* The backend named by use_for is compiled into the build.
CompiledIn(b, c) ==
    \/ c.use_for = "seq"
    \/ c.use_for = "omp" /\ b.omp
    \/ c.use_for = "tbb" /\ b.tbb

\* C2: a finished run has status 0 exactly when validation passed, status 1
\* on bad arguments or a failed validation, and a run with valid arguments
\* (and a backend the build supports) ends with "Solution validates" and
\* status 0.
C2_ExitStatus ==
    pc \in { "exited", "aborted" } =>
        /\ (exit = "0") <=> (msg = "Solution validates")
        /\ (~ValidArgs => exit = "1")
        /\ (ValidArgs /\ CompiledIn(build, cfg) =>
                exit = "0" /\ msg = "Solution validates")

\* C3: with fewer than two positional arguments, iterations < 1, order <= 0
\* or order > floor(sqrt(INT_MAX)), the run ends with a diagnostic and
\* status 1, the buffers never allocated and no loop body ever run.
C3_BadArgsNoComputation ==
    ~ValidArgs =>
        /\ pc \in { "start", "exited" }
        /\ ~allocated
        /\ ~touched
        /\ A = << >> /\ B = << >>
        /\ kernel = "none"
        /\ pc = "exited" =>
             /\ exit = "1"
             /\ msg \in { "usage", "iterations", "order", "overflow" }

\* A run with iterations = 0 has been rejected.
C3_Witness ==
    /\ pc = "exited"
    /\ argc = 3
    /\ argIter = 0
    /\ argOrder = 1
    /\ exit = "1"
    /\ msg = "iterations"

\* C5: the run aborts exactly when the selected backend is not compiled
\* in; a run that selects a compiled-in backend never aborts.
C5_AbortOnlyUnsupported ==
    pc = "aborted" => ~CompiledIn(build, cfg)

\* C12: a run that reaches validation has applied Transpose exactly
\* iterations+1 times; the timer is not started during application 0, is
\* started when application 0 is complete and no body of application 1 has
\* run, and is stopped when application `iterations` is complete, so that
\* trans_time spans the bodies of applications 1..iterations; and every
\* application, application 0 included, increments every cell of A and
\* adds to every cell of B.
C12_WarmupUntimed ==
    LET n2 == order * order
    IN  /\ AfterLoop =>
              /\ iter = iterations + 1
              /\ Len(dispatched) = iterations + 2
              /\ wtime = (iterations + 2) * n2
              /\ trans_time = iterations * n2
        /\ (pc = "forall" /\ kernel = "Transpose") =>
              /\ wtime = (iter + 1) * n2 + Cardinality(done)
              /\ trans_time = (IF iter = 0 THEN 0 ELSE 2 * n2)
        /\ (pc = "loop" /\ iter <= 1) => trans_time = 0
        /\ (pc = "forall" /\ kernel = "Transpose" /\ done = Pairs(order)) =>
              /\ \A x \in DOMAIN A : A[x] = snapA[x] + 1
              /\ \A q \in Pairs(order) :
                    B[BAddr(q[1], q[2], order)] =
                        snapB[BAddr(q[1], q[2], order)]
                            + snapA[AAddr(q[1], q[2], order)]

\* A for=omp run of MaxIter iterations and order MaxOrder has stopped its
\* timer, the warm-up outside the timed span.
C12_Witness ==
    /\ pc = "validate"
    /\ iterations = MaxIter
    /\ order = MaxOrder
    /\ cfg.use_for = "omp"
    /\ wtime = (iterations + 2) * order * order
    /\ trans_time = iterations * order * order

\* C16: with n applications of Transpose complete after Initialize, n in
\* 0..iterations+1, every cell has
\*   B[i*order+j] = n*(j*order+i) + n*(n-1)/2,
\* the sum of the n successive values of A[j*order+i].
C16_BTriangular ==
    (pc = "loop" \/ AfterLoop) =>
        /\ 0 <= iter /\ iter <= iterations + 1
        /\ \A q \in Pairs(order) :
              B[q[1] * order + q[2]] =
                  iter * (q[2] * order + q[1]) + (iter * (iter - 1)) \div 2

\* MaxIter+1 applications of order MaxOrder are complete: the cell (0,1)
\* holds more than MaxIter+1 copies of the initial A[1,0].
C16_Witness ==
    /\ pc = "loop"
    /\ order = MaxOrder
    /\ iterations = MaxIter
    /\ iter = MaxIter + 1
    /\ B[1] = iter * order + (iter * (iter - 1)) \div 2
    /\ B[1] > iter * order

\* C19: before the allocation the buffers are empty; from the allocation to
\* the end of the process A and B have exactly order*order elements each;
\* and the indices i*order+j and j*order+i of every loop body started by
\* Initialize or Transpose, of the pair a sequential loop nest is at, and of
\* the validator's accesses, are in [0, order*order).
C19_FixedSizeInBounds ==
    /\ ~allocated => (size = 0 /\ A = << >> /\ B = << >>)
    /\ allocated =>
          /\ size = order * order
          /\ DOMAIN A = 0..(size - 1)
          /\ DOMAIN B = 0..(size - 1)
          /\ done \subseteq Pairs(order)
          /\ (pc = "forall" /\ pos # End) => pos \in Pairs(order)
          /\ \A q \in DOMAIN execs :
                (execs[q] > 0 \/ q = pos) =>
                    /\ InitAddr(q[1], q[2], order) \in 0..(size - 1)
                    /\ AAddr(q[1], q[2], order) \in 0..(size - 1)
                    /\ BAddr(q[1], q[2], order) \in 0..(size - 1)
          /\ probe # << >> =>
                /\ probe.ij \in 0..(size - 1)
                /\ probe.ji \in 0..(size - 1)

\* A run of order MaxOrder has exited with status 0, the validator's last
\* access at the last element of the buffers.
C19_Witness ==
    /\ pc = "exited"
    /\ exit = "0"
    /\ order = MaxOrder
    /\ size = MaxOrder * MaxOrder
    /\ probe.ji = size - 1
    /\ execs[<< order - 1, order - 1 >>] = 1

\* The whole program under fair scheduling: main and the workers of a
\* forall keep taking steps while a step is possible.
FairSpec == Spec /\ WF_vars(Next)

\* C15: a run started with valid arguments and a backend the build has
\* compiled in completes: its kernel applications finish, validation runs
\* and main returns a status.
C15_Termination ==
    (pc = "start" /\ ValidArgs /\ CompiledIn(build, ParseFlags(DefaultCfg, argv)))
        ~> (pc = "exited" /\ iter = iterations + 1 /\ exit \in { "0", "1" })

(***************************************************************************)
(* Specification of the order guard: requested orders up to GuardMaxOrder, *)
(* the buffers' size and the index arithmetic without the buffers'         *)
(* contents.                                                               *)
(***************************************************************************)
InitGuard ==
    \E ord \in -1..GuardMaxOrder :
        StartState([omp |-> TRUE, tbb |-> TRUE], 3, 1, ord, << >>)

\* A.resize(order*order); B.resize(order*order): the size alone.
AllocSizeOnly ==
    /\ pc = "alloc"
    /\ allocated' = TRUE
    /\ size' = AllocSize(order)
    /\ pc' = "sized"
    /\ UNCHANGED << build, argc, argIter, argOrder, argv, iterations, order, cfg,
                    probe, A, B, kernel, pos, done, inflight, iter, snapA, snapB,
                    abserr, msg, exit, touched, run, refA, refB, wtime, trans_time, execs, dispatched >>

\* const int ij = i*order+j; const int ji = j*order+i; at a corner (i,j) of
\* the index space.
ProbeIndex ==
    /\ pc = "sized"
    /\ \E i \in { 0, order - 1 }, j \in { 0, order - 1 } :
         probe' = [i |-> i, j |-> j, ij |-> Index32(i, j, order),
                   ji |-> Index32(j, i, order)]
    /\ pc' = "probed"
    /\ UNCHANGED << build, argc, argIter, argOrder, argv, iterations, order, cfg,
                    allocated, size, A, B, kernel, pos, done, inflight, iter,
                    snapA, snapB, abserr, msg, exit, touched, run, refA, refB, wtime, trans_time, execs, dispatched >>

NextGuard ==
    \/ ReadArgs
    \/ AllocSizeOnly
    \/ ProbeIndex

SpecGuard == InitGuard /\ [][NextGuard]_vars

\* C4: an order whose square is above INT_MAX is rejected before the
\* buffers are allocated; an accepted order is in 1..46340, its square is
\* at most INT_MAX, and order*order, i*order+j and j*order+i computed in
\* 32-bit arithmetic are the exact values, the indices inside the buffers.
C4_OverflowGuard ==
    /\ (argOrder > 0 /\ MulOverflows(argOrder, argOrder)) =>
          /\ pc \in { "start", "exited" }
          /\ ~allocated
          /\ (pc = "exited" => exit = "1" /\ msg = "overflow")
    /\ pc \in { "alloc", "sized", "probed" } =>
          /\ 1 <= order /\ order <= 46340
          /\ ~MulOverflows(order, order)
    /\ pc \in { "sized", "probed" } => size = order * order
    /\ pc = "probed" =>
          /\ probe.ij = probe.i * order + probe.j
          /\ probe.ji = probe.j * order + probe.i
          /\ 0 <= probe.ij /\ probe.ij < size
          /\ 0 <= probe.ji /\ probe.ji < size

\* The largest accepted order has had its last index computed, and it is
\* the largest index of the buffers.
C4_Witness ==
    /\ pc = "probed"
    /\ order = 46340
    /\ probe.i = order - 1
    /\ probe.j = order - 1
    /\ probe.ij = size - 1

(***************************************************************************)
(* Specification of the program under valid arguments in the build with    *)
(* both backends, one load or store per step: up to NumWorkers bodies in   *)
(* progress under a parallel policy, in any assignment of pairs to workers *)
(* and any interleaving of their accesses.  The runs are for=seq and       *)
(* for=omp; for=tbb takes the same transitions as for=omp (PolicyParallel) *)
(* and runs under Spec.                                                    *)
(***************************************************************************)
InitPar ==
    \E ord \in 1..ParMaxOrder,
       toks \in { << >>, << T_for_omp >> } :
        StartState([omp |-> TRUE, tbb |-> TRUE], 3 + Len(toks), ParIter, ord, toks)

NextPar ==
    \/ ReadArgs
    \/ Alloc
    \/ EnterInit
    \/ StartBody
    \/ StepBody
    \/ InitJoin
    \/ LoopHead
    \/ TransJoin
    \/ ValidateStep
    \/ Report

SpecPar == InitPar /\ [][NextPar]_vars

RECURSIVE SeqTranspose(_, _, _, _)
\* Transpose under seq_for_seq: the bodies in row-major order from the
\* pair p on, each run to its end before the next; << A, B >> at the end.
SeqTranspose(a, b, p, n) ==
    IF p = End THEN << a, b >>
    ELSE SeqTranspose(TransBodyA(a, p[1], p[2], n), TransBodyB(a, b, p[1], p[2], n),
                      NextUntiled(p, n), n)

RECURSIVE SeqInitialize(_, _, _, _)
\* Initialize under seq_for_seq, likewise.
SeqInitialize(a, b, p, n) ==
    IF p = End THEN << a, b >>
    ELSE SeqInitialize(InitBodyA(a, p[1], p[2], n), InitBodyB(b, p[1], p[2], n),
                       NextUntiled(p, n), n)

RECURSIVE SeqLoop(_, _, _, _)
\* k applications of Transpose under seq_for_seq.
SeqLoop(a, b, k, n) ==
    IF k = 0 THEN << a, b >>
    ELSE LET r == SeqTranspose(a, b, << 0, 0 >>, n)
         IN  SeqLoop(r[1], r[2], k - 1, n)

\* The buffers of the sequential run for=seq at the end of main's loop.
SeqProgram(n, its) ==
    LET zero == [x \in 0..(n * n - 1) |-> 0]
        r == SeqInitialize(zero, zero, << 0, 0 >>, n)
    IN  SeqLoop(r[1], r[2], its + 1, n)

\* C6: when an application of Transpose has run all its bodies, in whatever
\* assignment to workers and interleaving of their loads and stores, A and
\* B are those of the sequential row-major application to the buffers it
\* started from; at the end of the loop they are those of the for=seq run.
C6_BackendInvariance ==
    /\ (pc = "forall" /\ kernel = "Transpose" /\ inflight = {}
            /\ done = Pairs(order)) =>
          << A, B >> = SeqTranspose(snapA, snapB, << 0, 0 >>, order)
    /\ AfterLoop => << A, B >> = SeqProgram(order, iterations)

\* The second for=omp application of order ParMaxOrder has completed.
C6_Witness ==
    /\ pc = "forall"
    /\ kernel = "Transpose"
    /\ cfg.use_for = "omp"
    /\ order = ParMaxOrder
    /\ iter = 1
    /\ done = Pairs(order)
    /\ inflight = {}

\* C8: every loop body in progress belongs to the forall main is inside:
\* no body of an application is running once main has left it, so no body
\* of application k+1 starts before every body of application k is done.
C8_Barrier ==
    /\ \A t \in inflight : pc = "forall" /\ t.k = kernel /\ t.app = CurApp
    /\ (pc = "forall" /\ kernel = "Transpose" /\ Claimed = {}) =>
          /\ A = snapA /\ B = snapB
          /\ \A x \in DOMAIN A : A[x] = x + iter

\* Bodies of the second application are in progress on two workers.
C8_Witness ==
    /\ pc = "forall"
    /\ kernel = "Transpose"
    /\ iter = 1
    /\ cfg.use_for = "omp"
    /\ Cardinality(inflight) = 2
    /\ \A t \in inflight : t.app = 1

\* The cell of A, and of B, that the body in progress t accesses.
TaskA(t) == IF t.k = "Initialize" THEN InitAddr(t.i, t.j, order)
            ELSE AAddr(t.i, t.j, order)
TaskB(t) == IF t.k = "Initialize" THEN InitAddr(t.i, t.j, order)
            ELSE BAddr(t.i, t.j, order)

\* C9: on entry to a forall, two distinct pairs of its index space never
\* share the cell of B or the cell of A their bodies access (A and B being
\* different buffers), the diagonal included; and at every moment no two
\* bodies in progress access a common cell.
C9_Disjointness ==
    /\ (pc = "forall" /\ inflight = {} /\ done = {}) =>
          \A p, q \in Pairs(order) :
             p # q =>
                /\ BAddr(p[1], p[2], order) # BAddr(q[1], q[2], order)
                /\ AAddr(p[1], p[2], order) # AAddr(q[1], q[2], order)
    /\ \A t, u \in inflight :
          t # u =>
             /\ << t.i, t.j >> # << u.i, u.j >>
             /\ TaskA(t) # TaskA(u)
             /\ TaskB(t) # TaskB(u)

\* A diagonal body and an off-diagonal body are in progress at once, one
\* about to store to A and the other about to store to B.
C9_Witness ==
    \E t, u \in inflight :
        /\ t.k = "Transpose" /\ u.k = "Transpose"
        /\ t.i = t.j
        /\ u.i # u.j
        /\ t.step = 4
        /\ u.step = 2

\* C10: with n applications of Transpose complete after Initialize, n in
\* 0..iterations+1, every cell has A[x] = x + n.
C10_AIncrementedOncePerApplication ==
    (pc = "loop" \/ AfterLoop) =>
        /\ iter <= iterations + 1
        /\ DOMAIN A = 0..(order * order - 1)
        /\ \A x \in DOMAIN A : A[x] = x + iter

\* All iterations+1 applications of a parallel run of order ParMaxOrder are
\* complete, the diagonal cell of the last row holding its index plus n.
C10_Witness ==
    /\ pc = "loop"
    /\ cfg.use_for = "omp"
    /\ order = ParMaxOrder
    /\ iter = iterations + 1
    /\ A[order * order - 1] = order * order - 1 + iter

(***************************************************************************)
(* Specification of the tiling comparison: main run untiled, then run      *)
(* again with tiled=y on the same order and iteration count, for orders    *)
(* below, at and above tile_size.                                          *)
(***************************************************************************)
TiledOrders == { 1, 2, tile_size - 1, tile_size, tile_size + TileOver }

InitTiled ==
    \E ord \in TiledOrders, its \in 1..TiledMaxIter :
        StartState([omp |-> TRUE, tbb |-> TRUE], 3, its, ord, << >>)

RECURSIVE InnerLoop(_, _, _, _, _)
\* The innermost loop of a sequential policy from the pair p to its end (the
\* end of the row, or of the row's part inside the tile): the buffers and
\* the completed pairs after its bodies, and the loop nest's next pair.
InnerLoop(a, b, d, e, p) ==
    LET a2 == IF kernel = "Initialize" THEN InitBodyA(a, p[1], p[2], order)
              ELSE TransBodyA(a, p[1], p[2], order)
        b2 == IF kernel = "Initialize" THEN InitBodyB(b, p[1], p[2], order)
              ELSE TransBodyB(a, b, p[1], p[2], order)
        q == NextPos(CurPolicy, p, order)
    IN  IF q # End /\ q[1] = p[1] /\ q[2] = p[2] + 1
        THEN InnerLoop(a2, b2, d \cup { p }, [e EXCEPT ![p] = @ + 1], q)
        ELSE [A |-> a2, B |-> b2, done |-> d \cup { p },
              execs |-> [e EXCEPT ![p] = @ + 1], pos |-> q]

\* One run of the innermost loop of the running forall under a sequential
\* policy, its bodies one after the other.
InnerLoopStep ==
    /\ pc = "forall"
    /\ kernel # "none"
    /\ ~PolicyParallel(CurPolicy)
    /\ pos # End
    /\ LET r == InnerLoop(A, B, done, execs, pos)
       IN  /\ A' = r.A
           /\ B' = r.B
           /\ done' = r.done
           /\ execs' = r.execs
           /\ pos' = r.pos
           /\ wtime' = wtime + Cardinality(r.done \ done)
    /\ touched' = TRUE
    /\ UNCHANGED << pc, build, argc, argIter, argOrder, argv, iterations, order,
                    cfg, allocated, size, probe, kernel, inflight, iter, snapA,
                    snapB, abserr, msg, exit, run, refA, refB, trans_time,
                    dispatched >>

\* The second run: the buffers the first run's loop ended with kept aside,
\* main started again with the token tiled=y added.
Rerun ==
    /\ AfterLoop
    /\ run = 1
    /\ run' = 2
    /\ refA' = A
    /\ refB' = B
    /\ argc' = argc + 1
    /\ argv' = Append(argv, T_tiled_y)
    /\ pc' = "start"
    /\ iterations' = 0
    /\ order' = 0
    /\ cfg' = DefaultCfg
    /\ allocated' = FALSE
    /\ size' = 0
    /\ probe' = << >>
    /\ A' = << >>
    /\ B' = << >>
    /\ kernel' = "none"
    /\ pos' = End
    /\ done' = {}
    /\ iter' = 0
    /\ snapA' = << >>
    /\ snapB' = << >>
    /\ abserr' = 0
    /\ msg' = "none"
    /\ exit' = "running"
    /\ touched' = FALSE
    /\ wtime' = 0
    /\ trans_time' = 0
    /\ execs' = << >>
    /\ dispatched' = << >>
    /\ UNCHANGED << build, argIter, argOrder, inflight >>

NextTiledRuns ==
    \/ ReadArgs
    \/ Alloc
    \/ EnterInit
    \/ InnerLoopStep
    \/ InitJoin
    \/ LoopHead
    \/ TransJoin
    \/ ValidateStep
    \/ Report
    \/ Rerun

SpecTiled == InitTiled /\ [][NextTiledRuns]_vars

\* C7: for the same order and iterations, the run whose Initialize and
\* Transpose go through the index space in tile_size x tile_size tiles ends
\* its loop with the A and B of the untiled run, for orders below tile_size,
\* equal to it and not a multiple of it.
C7_TilingInvariance ==
    /\ (run = 1 /\ kernel # "none") => ~PolicyTiled(CurPolicy)
    /\ (run = 2 /\ kernel # "none") => PolicyTiled(CurPolicy)
    /\ (run = 2 /\ AfterLoop) => (A = refA /\ B = refB)

\* The tiled run of an order above tile_size has ended its loop, its last
\* body the corner of the last, cut, tile.
C7_Witness ==
    /\ run = 2
    /\ pc = "validate"
    /\ order = tile_size + TileOver
    /\ \A x \in DOMAIN refA : refA[x] = x + iterations + 1

(***************************************************************************)
(* Specification of Initialize alone: the call made on buffers of          *)
(* order*order elements holding arbitrary prior contents, and made again   *)
(* on the buffers the first call returned.                                 *)
(***************************************************************************)
\* Values a cell may hold before Initialize: a negative value, the value
\* B is set to, and a value no cell of A is set to.
PriorVals == { -1, 0, 5 }

\* Prior contents of << A, B >>: one cell c holding another value than the
\* rest of its buffer.
PriorBuffers(n) ==
    { << [x \in 0..(n * n - 1) |-> IF x = c THEN v ELSE w],
         [x \in 0..(n * n - 1) |-> IF x = c THEN w ELSE v] >> :
        c \in 0..(n * n - 1), v \in PriorVals, w \in PriorVals }

\* main about to call Initialize, the buffers allocated.
InitInitialize ==
    \E ord \in 1..InitMaxOrder,
       toks \in { << >>, << T_for_omp >>, << T_nested_n >>, << T_tiled_y >> } :
      \E ab \in PriorBuffers(ord) :
        /\ pc = "init"
        /\ build = [omp |-> TRUE, tbb |-> TRUE]
        /\ argc = 3 + Len(toks)
        /\ argIter = 1
        /\ argOrder = ord
        /\ argv = toks
        /\ iterations = 1
        /\ order = ord
        /\ cfg = ParseFlags(DefaultCfg, toks)
        /\ allocated = TRUE
        /\ size = AllocSize(ord)
        /\ probe = << >>
        /\ A = ab[1]
        /\ B = ab[2]
        /\ kernel = "none"
        /\ pos = End
        /\ done = {}
        /\ inflight = {}
        /\ iter = 0
        /\ snapA = << >>
        /\ snapB = << >>
        /\ abserr = 0
        /\ msg = "none"
        /\ exit = "running"
        /\ touched = FALSE
        /\ run = 1
        /\ refA = << >>
        /\ refB = << >>
        /\ wtime = 0
        /\ trans_time = 0
        /\ execs = << >>
        /\ dispatched = << >>

\* Initialize called a second time, on the buffers its first call returned,
\* which are kept aside.
Reinitialize ==
    /\ pc = "loop"
    /\ iter = 0
    /\ run = 1
    /\ run' = 2
    /\ refA' = A
    /\ refB' = B
    /\ pc' = "init"
    /\ UNCHANGED << build, argc, argIter, argOrder, argv, iterations, order, cfg,
                    allocated, size, probe, A, B, kernel, pos, done, inflight,
                    iter, snapA, snapB, abserr, msg, exit, touched, wtime,
                    trans_time, execs, dispatched >>

NextInit ==
    \/ EnterInit
    \/ BodyStep
    \/ InitJoin
    \/ Reinitialize

SpecInit == InitInitialize /\ [][NextInit]_vars

\* C11: whatever A and B of order*order elements held before, when
\* Initialize has returned A[x] = x and B[x] = 0 for every x in
\* [0, order*order); a second call returns the same A and B.
C11_InitializeIdempotent ==
    pc = "loop" =>
        /\ DOMAIN A = 0..(order * order - 1)
        /\ DOMAIN B = 0..(order * order - 1)
        /\ \A x \in 0..(order * order - 1) : A[x] = x /\ B[x] = 0
        /\ (run = 2 => A = refA /\ B = refB)

\* The second call of a for=omp run of order InitMaxOrder has returned, having
\* started from the buffers the first call returned.
C11_Witness ==
    /\ pc = "loop"
    /\ run = 2
    /\ cfg.use_for = "omp"
    /\ order = InitMaxOrder
    /\ snapA = refA
    /\ B = refB

(***************************************************************************)
(* Specification of the program on argument lists with and without a       *)
(* permute token, one loop body per step.                                  *)
(***************************************************************************)
T_permute_ij == << "p", "e", "r", "m", "u", "t", "e", "=", "i", "j" >>
T_permute_ji == << "p", "e", "r", "m", "u", "t", "e", "=", "j", "i" >>

IsPermuteToken(s) == s \in { T_permute_ij, T_permute_ji }

\* The argument list with its permute tokens removed.
StripPermute(toks) == SelectSeq(toks, LAMBDA s : ~IsPermuteToken(s))

\* The lists q with the token t put in at any place.
WithToken(q, t) ==
    { SubSeq(q, 1, k) \o << t >> \o SubSeq(q, k + 1, Len(q)) : k \in 0..Len(q) }

PermuteArgLists ==
    LET base == { << >>, << T_for_omp >>, << T_for_tbb >>, << T_simd_n >>,
                  << T_nested_n >>, << T_tiled_y >> }
    IN  base \cup UNION { WithToken(q, t) :
                            q \in base, t \in { T_permute_ij, T_permute_ji } }

InitPermute ==
    \E b \in Builds, its \in 1..PermMaxIter, ord \in 1..PermMaxOrder,
       toks \in PermuteArgLists :
        StartState(b, 3 + Len(toks), its, ord, toks)

SpecPermute == InitPermute /\ [][Next]_vars

RECURSIVE BodiesOn(_, _, _, _, _, _)
\* The bodies of kernel k at the pairs of S, from the pair p on in
\* row-major order, applied to the buffers a and b.
BodiesOn(k, a, b, p, S, n) ==
    IF p = End THEN << a, b >>
    ELSE IF p \notin S THEN BodiesOn(k, a, b, NextUntiled(p, n), S, n)
    ELSE IF k = "Initialize"
         THEN BodiesOn(k, InitBodyA(a, p[1], p[2], n), InitBodyB(b, p[1], p[2], n),
                       NextUntiled(p, n), S, n)
         ELSE BodiesOn(k, TransBodyA(a, p[1], p[2], n),
                       TransBodyB(a, b, p[1], p[2], n), NextUntiled(p, n), S, n)

\* The buffers of a run at the point where, after allocation, Initialize
\* and `it` applications of Transpose are complete and the bodies of S of
\* the kernel k have run (k = "none": no forall is running).
BuffersAt(k, it, S, n) ==
    LET zero == [x \in 0..(n * n - 1) |-> 0]
        init == BodiesOn("Initialize", zero, zero, << 0, 0 >>,
                         IF k = "Initialize" THEN S ELSE Pairs(n), n)
        loop == SeqLoop(init[1], init[2], it, n)
    IN  IF k = "Initialize" THEN init
        ELSE IF k = "Transpose"
             THEN BodiesOn("Transpose", loop[1], loop[2], << 0, 0 >>, S, n)
             ELSE loop

RECURSIVE FirstPairs(_, _, _, _)
\* The first k pairs of the loop nest of the sequential policy pol, from p.
FirstPairs(pol, p, k, n) ==
    IF k = 0 \/ p = End THEN {}
    ELSE { p } \cup FirstPairs(pol, NextPos(pol, p, n), k - 1, n)

RECURSIVE ErrSum(_, _, _, _)
\* abserr after the validator's loop nest from the pair p on.
ErrSum(b, p, n, its) ==
    IF p = End THEN 0
    ELSE Abs(b[Index32(p[2], p[1], n)] - Reference(Index32(p[1], p[2], n), its))
            + ErrSum(b, NextUntiled(p, n), n, its)

\* << msg, exit >> at the end of the run of build bld with the resolved
\* configuration c.
Outcome(bld, c, n, its) ==
    IF ~BranchSelected(bld, c) \/ AbortMessage(bld) # "none"
    THEN << AbortMessage(bld), "abort" >>
    ELSE IF BelowEpsilon(ErrSum(BuffersAt("none", its + 1, {}, n)[2], << 0, 0 >>, n, its))
         THEN << "Solution validates", "0" >>
         ELSE << "ERROR: Aggregate squared error", "1" >>

\* C13: with c0 the configuration resolved from the argument list without
\* its permute tokens, the run of the full list resolves c0 up to
\* use_permute, selects the policies of c0 and the same branch of the
\* dispatch, has at every step the buffers the c0 run has at that step (and
\* under a sequential policy reaches the pairs in the c0 policy's order),
\* and ends with the c0 run's diagnostic and status.
C13_PermuteNoEffect ==
    LET c0 == ParseFlags(DefaultCfg, StripPermute(argv))
    IN  /\ pc \notin { "start", "exited" } \/ allocated =>
              /\ [cfg EXCEPT !.use_permute = "no"] = c0
              /\ InitPolicy(cfg) = InitPolicy(c0)
              /\ TransPolicy(cfg) = TransPolicy(c0)
              /\ BranchSelected(build, cfg) = BranchSelected(build, c0)
        /\ pc = "forall" =>
              /\ << A, B >> = BuffersAt(kernel, iter, done, order)
              /\ ~PolicyParallel(TransPolicy(c0)) =>
                    done = FirstPairs(TransPolicy(c0), << 0, 0 >>,
                                      Cardinality(done), order)
        /\ pc = "init" => << A, B >> = BuffersAt("Initialize", 0, {}, order)
        /\ pc \in { "loop", "validate", "report" } =>
              << A, B >> = BuffersAt("none", iter, {}, order)
        /\ (pc \in { "exited", "aborted" } /\ allocated) =>
              << msg, exit >> = Outcome(build, c0, order, iterations)

\* A run with the token permute=ji, tiled and of order PermMaxOrder, has
\* validated and returned 0.
C13_Witness ==
    /\ pc = "exited"
    /\ exit = "0"
    /\ cfg.use_permute = "ji"
    /\ cfg.use_tiled
    /\ order = PermMaxOrder

(***************************************************************************)
(* Specification of flag resolution: every list of up to FlagMaxArgs       *)
(* tokens, the tokens the parser acts on and tokens it does not.           *)
(***************************************************************************)
T_for_openmp == << "f", "o", "r", "=", "o", "p", "e", "n", "m", "p" >>
T_simd_np == << "s", "i", "m", "d", "=", "n", "p" >>
T_nested_no == << "n", "e", "s", "t", "e", "d", "=", "n", "o" >>
T_tiled_yes == << "t", "i", "l", "e", "d", "=", "y", "e", "s" >>
T_for_seq == << "f", "o", "r", "=", "s", "e", "q" >>
T_simd_y == << "s", "i", "m", "d", "=", "y" >>
T_nested_y == << "n", "e", "s", "t", "e", "d", "=", "y" >>
T_tiled_n == << "t", "i", "l", "e", "d", "=", "n" >>
T_simd_no == << "s", "i", "m", "d", "=", "n", "o" >>
T_xfor_omp == << "x", "f", "o", "r", "=", "o", "m", "p" >>
T_for_ == << "f", "o", "r", "=" >>
T_foo == << "f", "o", "o" >>
T_for_omp_x == << "f", "o", "r", "=", "o", "m", "p", "x" >>

\* The tokens for which a comparison of the flag loop succeeds.
RecognizedTokens ==
    { T_for_omp, T_for_openmp, T_for_tbb, T_simd_n, T_simd_np, T_nested_n,
      T_nested_no, T_tiled_y, T_tiled_yes, T_permute_ij, T_permute_ji }

Recognized(s) == s \in RecognizedTokens

\* Tokens no comparison of the flag loop succeeds for: values that name a
\* default, other values, a key that is not at the start, no key at all.
OtherTokens ==
    { T_for_seq, T_simd_y, T_nested_y, T_tiled_n, T_simd_no, T_xfor_omp,
      T_for_, T_foo, T_for_omp_x }

FlagTokens == RecognizedTokens \cup OtherTokens

\* Every value the five configuration variables can take.
Cfgs ==
    [ use_for : { "seq", "omp", "tbb" }, use_permute : { "no", "ij", "ji" },
      use_simd : BOOLEAN, use_nested : BOOLEAN, use_tiled : BOOLEAN ]

InitFlags ==
    \E toks \in SeqsUpTo(FlagTokens, FlagMaxArgs) :
        StartState([omp |-> TRUE, tbb |-> TRUE], 3 + Len(toks), 1, 1, toks)

NextFlags ==
    \/ ReadArgs
    \/ AllocSizeOnly

SpecFlags == InitFlags /\ [][NextFlags]_vars

\* C14: with no token the parser acts on, the resolved configuration is
\* for=seq, simd on, nested on, tiled off; a token the parser does not act
\* on changes no configuration it is parsed in, the resolved configuration
\* is that of the list without such tokens, and the run goes on to the
\* allocation without a diagnostic or an exit.
C14_DefaultsAndIgnoredTokens ==
    pc # "start" =>
        /\ (\A k \in 1..Len(argv) : ~Recognized(argv[k])) =>
              /\ cfg = DefaultCfg
              /\ cfg.use_for = "seq"
              /\ cfg.use_simd /\ cfg.use_nested /\ ~cfg.use_tiled
        /\ \A k \in 1..Len(argv) :
              ~Recognized(argv[k]) => \A c \in Cfgs : ParseToken(c, argv[k]) = c
        /\ cfg = ParseFlags(DefaultCfg, SelectSeq(argv, Recognized))
        /\ pc \in { "alloc", "sized" }
        /\ exit = "running"
        /\ msg = "none"

\* The list "xfor=omp simd=no" has been parsed and the buffers sized, the
\* configuration the default one.
C14_Witness ==
    /\ pc = "sized"
    /\ argv = << T_xfor_omp, T_simd_no >>
    /\ cfg = DefaultCfg

\* The permutations of 1..n.
Bijections(n) ==
    { f \in [1..n -> 1..n] : \A i \in 1..n, j \in 1..n : i # j => f[i] # f[j] }

\* The orderings of the tokens of q.
Reorderings(q) == { [i \in 1..Len(q) |-> q[f[i]]] : f \in Bijections(Len(q)) }

\* The backend named by the last for=omp, for=openmp or for=tbb token of q.
RECURSIVE LastBackend(_)
LastBackend(q) ==
    IF q = << >> THEN "seq"
    ELSE LET t == q[Len(q)]
         IN  IF t \in { T_for_omp, T_for_openmp } THEN "omp"
             ELSE IF t = T_for_tbb THEN "tbb"
             ELSE LastBackend(SubSeq(q, 1, Len(q) - 1))

\* C20: after each token of the list simd is on or has gone from on to off,
\* nested likewise, tiled is off or has gone from off to on; the resolved
\* simd is off exactly when some token is simd=n or simd=np, nested is off
\* exactly when some token is nested=n or nested=no, tiled is on exactly
\* when some token is tiled=y or tiled=yes, whatever simd=y, nested=y,
\* tiled=n or for=seq tokens follow; the backend is the one named by the
\* last for=omp, for=openmp or for=tbb token; and every reordering of the
\* tokens resolves the same simd, nested and tiled.
C20_FlagsMonotone ==
    pc # "start" =>
        /\ \A k \in 1..Len(argv) :
              LET before == ParseFlags(DefaultCfg, SubSeq(argv, 1, k - 1))
                  after == ParseFlags(DefaultCfg, SubSeq(argv, 1, k))
              IN  /\ (~before.use_simd => ~after.use_simd)
                  /\ (~before.use_nested => ~after.use_nested)
                  /\ (before.use_tiled => after.use_tiled)
                  /\ (after.use_for = "seq" => before.use_for = "seq")
        /\ cfg.use_simd = ~(\E k \in 1..Len(argv) : argv[k] \in { T_simd_n, T_simd_np })
        /\ cfg.use_nested =
              ~(\E k \in 1..Len(argv) : argv[k] \in { T_nested_n, T_nested_no })
        /\ cfg.use_tiled = (\E k \in 1..Len(argv) : argv[k] \in { T_tiled_y, T_tiled_yes })
        /\ cfg.use_for = LastBackend(argv)
        /\ \A q \in Reorderings(argv) :
              LET c == ParseFlags(DefaultCfg, q)
              IN  /\ c.use_simd = cfg.use_simd
                  /\ c.use_nested = cfg.use_nested
                  /\ c.use_tiled = cfg.use_tiled

\* The list "simd=n simd=y" has been parsed: simd is off.
C20_Witness ==
    /\ pc = "alloc"
    /\ argv = << T_simd_n, T_simd_y >>
    /\ ~cfg.use_simd

(***************************************************************************)
(* Specification of the program under every policy main can select: each   *)
(* combination of for, simd, nested and tiled at orders up to PolMaxOrder, *)
(* and the two sequential tiled policies at orders tile_size and           *)
(* tile_size + TileOver.  A sequential forall takes one run of its         *)
(* innermost loop per step, a parallel forall one loop body per step.      *)
(***************************************************************************)
\* The argument lists with at most one token per flag, for= first.
PolicyArgLists ==
    { f \o v \o e \o t :
        f \in { << >>, << T_for_omp >>, << T_for_tbb >> },
        v \in { << >>, << T_simd_n >> },
        e \in { << >>, << T_nested_n >> },
        t \in { << >>, << T_tiled_y >> } }

InitPolicies ==
    \/ \E ord \in 1..PolMaxOrder, toks \in PolicyArgLists :
          StartState([omp |-> TRUE, tbb |-> TRUE], 3 + Len(toks), PolIter, ord, toks)
    \/ \E ord \in { tile_size, tile_size + TileOver },
          toks \in { << T_tiled_y >>, << T_simd_n, T_tiled_y >> } :
          StartState([omp |-> TRUE, tbb |-> TRUE], 3 + Len(toks), PolIter, ord, toks)

\* One loop body of the running forall under a parallel policy.
ParallelBodyStep ==
    /\ pc = "forall"
    /\ kernel # "none"
    /\ PolicyParallel(CurPolicy)
    /\ BodyStep

NextPolicies ==
    \/ ReadArgs
    \/ Alloc
    \/ EnterInit
    \/ InnerLoopStep
    \/ ParallelBodyStep
    \/ InitJoin
    \/ LoopHead
    \/ TransJoin
    \/ ValidateStep
    \/ Report

SpecPolicies == InitPolicies /\ [][NextPolicies]_vars

\* The foralls that have returned: Initialize and the complete applications.
ForallsReturned == IF kernel = "Initialize" THEN 0 ELSE iter + 1

\* C17: in every forall, under every policy, the body of a pair is started
\* at most once; the pairs whose body has run are those started once; when
\* the forall returns, the body of every pair of [0,order) x [0,order), the
\* diagonal included, has run exactly once, and the number of bodies run
\* is order*order per forall.
C17_EachPairOnce ==
    /\ pc = "forall" =>
          /\ DOMAIN execs = Pairs(order)
          /\ \A q \in Pairs(order) :
                execs[q] = (IF q \in done THEN 1 ELSE 0)
          /\ wtime = ForallsReturned * order * order + Cardinality(done)
          /\ JoinReady => \A q \in Pairs(order) : execs[q] = 1
    /\ (pc = "loop" \/ AfterLoop) =>
          /\ \A q \in Pairs(order) : execs[q] = 1
          /\ wtime = (iter + 1) * order * order

\* An application of Transpose under tbb_for_seq_tiled has run all its
\* bodies, the diagonal ones among them.
C17_Witness ==
    /\ pc = "forall"
    /\ kernel = "Transpose"
    /\ CurPolicy = << "tbb", "for_seq_tiled" >>
    /\ order = PolMaxOrder
    /\ done = Pairs(order)
    /\ \A i \in 0..(order - 1) : execs[<< i, i >>] = 1

\* C18: for every configuration the Initialize chain and the Transpose
\* chain select the same policy; in a run, the policy of every Transpose
\* dispatch is the policy of the Initialize dispatch, the one of the
\* configuration resolved from the arguments, which no later step changes.
C18_SamePolicy ==
    /\ \A c \in Cfgs : InitPolicy(c) = TransPolicy(c)
    /\ pc # "start" =>
          /\ cfg = ParseFlags(DefaultCfg, argv)
          /\ \A k \in 1..Len(dispatched) :
                /\ dispatched[k] = dispatched[1]
                /\ dispatched[k] = InitPolicy(cfg)
    /\ (pc = "forall" /\ kernel = "Transpose") => Len(dispatched) = iter + 2

\* The second application of a tiled, non-vectorised TBB run has been
\* dispatched under the policy Initialize ran under.
C18_Witness ==
    /\ pc = "forall"
    /\ kernel = "Transpose"
    /\ iter = 1
    /\ Len(dispatched) = 3
    /\ dispatched[1] = << "tbb", "for_seq_tiled" >>
    /\ dispatched[3] = dispatched[1]

====
